---- MODULE Spec2Model ----
\* Model of update_dictionary.py: the protocol-buffer wire codec, the
\* Storage / Dictionary / Entry record model and the merge performed by
\* update_dictionary.
\*
\* Bytes are integers 0..255 and buffers are sequences of bytes.  Python
\* integers are unbounded; a decoded varint is kept as its base-128 digits,
\* least significant first, without high zero digits ("Big"), so that the
\* value of an 11-byte varint is representable.  A str is the sequence of its
\* code points.
EXTENDS Integers, Sequences, FiniteSets, TLC

\* ------------------------------------------------------------------ constants
WIRE_VARINT == 0
WIRE_64BIT == 1
WIRE_LENGTH_DELIMITED == 2
WIRE_32BIT == 5

STORAGE_FIELD_DICTIONARY == 2

DICT_FIELD_ID == 1
DICT_FIELD_NAME == 3
DICT_FIELD_ENTRY == 4

ENTRY_FIELD_KEY == 1
ENTRY_FIELD_VALUE == 2
ENTRY_FIELD_COMMENT == 4
ENTRY_FIELD_POS == 5

\* ------------------------------------------------------- unbounded integers
RECURSIVE Norm(_)
\* The digits of a Python int: no high zero digit.
Norm(d) ==
    IF d = <<>> THEN <<>>
    ELSE IF d[Len(d)] = 0 THEN Norm(SubSeq(d, 1, Len(d) - 1))
    ELSE d

RECURSIVE IntToBig(_)
IntToBig(n) ==
    IF n = 0 THEN <<>> ELSE <<n % 128>> \o IntToBig(n \div 128)

\* Values below 2^28 are also usable as model integers.
BigFits(v) == Len(v) <= 4

RECURSIVE BigToInt(_)
BigToInt(v) ==
    IF v = <<>> THEN 0 ELSE v[1] + 128 * BigToInt(Tail(v))

\* tag >> 3
ShiftRight3(v) ==
    Norm([i \in 1..Len(v) |->
            (v[i] \div 8) + (IF i < Len(v) THEN (v[i + 1] % 8) * 16 ELSE 0)])

\* tag & 0x7
Low3(v) == IF v = <<>> THEN 0 ELSE v[1] % 8

\* (field_number << 3) | wire_type
ShiftLeft3Or(fn, wt) ==
    Norm([i \in 1..(Len(fn) + 1) |->
            (IF i <= Len(fn) THEN (fn[i] % 16) * 8 ELSE 0)
          + (IF i > 1 THEN (fn[i - 1] \div 16) ELSE wt)])

\* ------------------------------------------------------------------- varints
ProtoDecodeError == "ProtoDecodeError"
UnicodeDecodeError == "UnicodeDecodeError"
ValueError == "ValueError"
NoError == "none"

\* The loop state of decode_varint before its first iteration.
decode_varint_start(index) ==
    [status |-> "run", index |-> index, shift |-> 0, result |-> <<>>]

\* The 70-bit cap of the loop, compared after shift += 7.
VarintTooLong(shift) == shift > 70

\* The byte b read at st.index: result |= (b & 0x7F) << shift, then either
\* the return, or shift += 7 and the cap.
decode_varint_byte(st, b) ==
    [status |-> IF b < 128 THEN "return"
                ELSE IF VarintTooLong(st.shift + 7) THEN ProtoDecodeError
                ELSE "run",
     index |-> st.index + 1,
     shift |-> IF b < 128 THEN st.shift ELSE st.shift + 7,
     result |-> Append(st.result, b % 128)]

\* One iteration of the while loop of decode_varint.
decode_varint_step(data, st) ==
    IF st.index >= Len(data)
    THEN [st EXCEPT !.status = ProtoDecodeError]
    ELSE decode_varint_byte(st, data[st.index + 1])

RECURSIVE decode_varint_loop(_, _)
decode_varint_loop(data, st) ==
    IF st.status = "run" THEN decode_varint_loop(data, decode_varint_step(data, st))
    ELSE st

\* What decode_varint hands back when its loop ends in st.
decode_varint_return(st) ==
    IF st.status = "return"
    THEN [err |-> NoError, value |-> Norm(st.result), index |-> st.index]
    ELSE [err |-> ProtoDecodeError, value |-> <<>>, index |-> st.index]

\* decode_varint(data, index) -> (result, index), or ProtoDecodeError.
decode_varint(data, index) ==
    decode_varint_return(decode_varint_loop(data, decode_varint_start(index)))

RECURSIVE encode_varint(_)
\* encode_varint(value) for value >= 0: the digits, all but the last with the
\* continuation bit; zero is the single byte 0.
encode_varint(value) ==
    IF value = <<>> THEN <<0>>
    ELSE IF Len(value) = 1 THEN <<value[1]>>
    ELSE <<value[1] + 128>> \o encode_varint(Tail(value))

encode_tag(field_number, wire_type) ==
    encode_varint(ShiftLeft3Or(field_number, wire_type))

\* ------------------------------------------------------------------- fields
\* Field = (field_number, wire_type, value); value is an int for a varint
\* field (ival) and bytes otherwise (bval).
MkField(num, wt, ival, bval) ==
    [num |-> num, wt |-> wt, ival |-> ival, bval |-> bval]

\* What encode_raw_field puts after the tag.
encode_value(wire_type, ival, bval) ==
    IF wire_type = WIRE_VARINT THEN encode_varint(ival)
    ELSE IF wire_type = WIRE_LENGTH_DELIMITED
    THEN encode_varint(IntToBig(Len(bval))) \o bval
    ELSE bval

\* encode_raw_field for a Field produced by parse_fields or by build_*: the
\* isinstance and length checks of the source hold for such values.
encode_raw_field(field_number, wire_type, ival, bval) ==
    encode_tag(field_number, wire_type) \o encode_value(wire_type, ival, bval)

FieldsError(e) == [err |-> e, fields |-> <<>>]

\* index + n > len(data), for a fixed width n.
PastEnd(data, index, n) == index + n > Len(data)

\* index + length > len(data), for a decoded length.
LengthPastEnd(data, index, length) ==
    IF BigFits(length) THEN index + BigToInt(length) > Len(data) ELSE TRUE

RECURSIVE parse_fields_loop(_, _, _)

\* value = data[index : index + n]; index += n; fields.append(...)
take_bytes(data, fields, field_number, wire_type, index, n) ==
    parse_fields_loop(data, index + n,
        Append(fields, MkField(field_number, wire_type, <<>>,
                               SubSeq(data, index + 1, index + n))))

\* The WIRE_VARINT branch, v being decode_varint(data, index).
parse_varint_value(data, fields, field_number, v) ==
    IF v.err # NoError THEN FieldsError(v.err)
    ELSE parse_fields_loop(data, v.index,
             Append(fields, MkField(field_number, WIRE_VARINT, v.value, <<>>)))

\* The WIRE_64BIT and WIRE_32BIT branches, n being 8 or 4.
parse_fixed_value(data, fields, field_number, wire_type, index, n) ==
    IF PastEnd(data, index, n) THEN FieldsError(ProtoDecodeError)
    ELSE take_bytes(data, fields, field_number, wire_type, index, n)

\* The WIRE_LENGTH_DELIMITED branch, l being decode_varint(data, index).
parse_delimited_value(data, fields, field_number, l) ==
    IF l.err # NoError THEN FieldsError(l.err)
    ELSE IF LengthPastEnd(data, l.index, l.value) THEN FieldsError(ProtoDecodeError)
    ELSE take_bytes(data, fields, field_number, WIRE_LENGTH_DELIMITED,
                    l.index, BigToInt(l.value))

\* wire_type in {0, 1, 2, 5}; anything else is "Unsupported wire type".
SupportedWireType(wire_type) ==
    wire_type \in {WIRE_VARINT, WIRE_64BIT, WIRE_LENGTH_DELIMITED, WIRE_32BIT}

\* The if / elif chain on wire_type.
parse_value(data, fields, field_number, wire_type, index) ==
    IF ~SupportedWireType(wire_type) THEN FieldsError(ProtoDecodeError)
    ELSE IF wire_type = WIRE_VARINT
    THEN parse_varint_value(data, fields, field_number, decode_varint(data, index))
    ELSE IF wire_type = WIRE_LENGTH_DELIMITED
    THEN parse_delimited_value(data, fields, field_number, decode_varint(data, index))
    ELSE parse_fixed_value(data, fields, field_number, wire_type, index,
                           IF wire_type = WIRE_64BIT THEN 8 ELSE 4)

\* One field, tag being decode_varint(data, index).
parse_field(data, fields, tag) ==
    IF tag.err # NoError THEN FieldsError(tag.err)
    ELSE parse_value(data, fields, ShiftRight3(tag.value), Low3(tag.value), tag.index)

parse_fields_loop(data, index, fields) ==
    IF ~(index < Len(data)) THEN [err |-> NoError, fields |-> fields]
    ELSE parse_field(data, fields, decode_varint(data, index))

parse_fields(data) == parse_fields_loop(data, 0, <<>>)

\* -------------------------------------------------------------------- UTF-8
IsCont(b) == b >= 128 /\ b <= 191

RECURSIVE utf8_decode_loop(_, _, _)
\* bytes.decode("utf-8"), strict: shortest form only, no surrogates, at most
\* U+10FFFF.
utf8_decode_loop(b, i, acc) ==
    IF i > Len(b) THEN [err |-> NoError, str |-> acc]
    ELSE
    LET c == b[i]
        bad == [err |-> UnicodeDecodeError, str |-> <<>>]
    IN
    IF c < 128 THEN utf8_decode_loop(b, i + 1, Append(acc, c))
    ELSE IF c >= 194 /\ c <= 223 THEN
        IF i + 1 <= Len(b) /\ IsCont(b[i + 1])
        THEN utf8_decode_loop(b, i + 2, Append(acc, (c - 192) * 64 + (b[i + 1] - 128)))
        ELSE bad
    ELSE IF c >= 224 /\ c <= 239 THEN
        IF /\ i + 2 <= Len(b)
           /\ IsCont(b[i + 1]) /\ IsCont(b[i + 2])
           /\ (c = 224 => b[i + 1] >= 160)
           /\ (c = 237 => b[i + 1] <= 159)
        THEN utf8_decode_loop(b, i + 3,
                 Append(acc, (c - 224) * 4096 + (b[i + 1] - 128) * 64 + (b[i + 2] - 128)))
        ELSE bad
    ELSE IF c >= 240 /\ c <= 244 THEN
        IF /\ i + 3 <= Len(b)
           /\ IsCont(b[i + 1]) /\ IsCont(b[i + 2]) /\ IsCont(b[i + 3])
           /\ (c = 240 => b[i + 1] >= 144)
           /\ (c = 244 => b[i + 1] <= 143)
        THEN utf8_decode_loop(b, i + 4,
                 Append(acc, (c - 240) * 262144 + (b[i + 1] - 128) * 4096
                             + (b[i + 2] - 128) * 64 + (b[i + 3] - 128)))
        ELSE bad
    ELSE bad

utf8_decode(b) == utf8_decode_loop(b, 1, <<>>)

RECURSIVE utf8_encode(_)
\* str.encode("utf-8") of a str without surrogates.
utf8_encode(s) ==
    IF s = <<>> THEN <<>>
    ELSE
    LET c == s[1] IN
    (IF c < 128 THEN <<c>>
     ELSE IF c < 2048 THEN <<192 + (c \div 64), 128 + (c % 64)>>
     ELSE IF c < 65536
     THEN <<224 + (c \div 4096), 128 + ((c \div 64) % 64), 128 + (c % 64)>>
     ELSE <<240 + (c \div 262144), 128 + ((c \div 4096) % 64),
            128 + ((c \div 64) % 64), 128 + (c % 64)>>)
    \o utf8_encode(Tail(s))

\* ------------------------------------------------------------ record model
IsField(f, number, wire_type) == f.num = IntToBig(number) /\ f.wt = wire_type

DictionaryData(dict_id, name, entries_raw, unknown_fields) ==
    [dict_id |-> dict_id, name |-> name, entries_raw |-> entries_raw,
     unknown_fields |-> unknown_fields]

DictError(e) == [err |-> e, dict |-> DictionaryData(<<>>, <<>>, <<>>, <<>>)]

\* name = value.decode("utf-8"), s being the decoding.
set_name(acc, s) ==
    IF s.err # NoError THEN [acc EXCEPT !.err = s.err]
    ELSE [acc EXCEPT !.has_name = TRUE, !.name = s.str]

\* The body of the for loop of parse_dictionary; acc holds dict_id, name (with
\* has_id / has_name false for None), entries and unknown.
parse_dictionary_field(acc, f) ==
    IF IsField(f, DICT_FIELD_ID, WIRE_VARINT)
    THEN [acc EXCEPT !.has_id = TRUE, !.dict_id = f.ival]
    ELSE IF IsField(f, DICT_FIELD_NAME, WIRE_LENGTH_DELIMITED)
    THEN set_name(acc, utf8_decode(f.bval))
    ELSE IF IsField(f, DICT_FIELD_ENTRY, WIRE_LENGTH_DELIMITED)
    THEN [acc EXCEPT !.entries = Append(@, f.bval)]
    ELSE [acc EXCEPT !.unknown = Append(@, f)]

RECURSIVE parse_dictionary_loop(_, _, _)
\* The for loop of parse_dictionary; an exception ends it.
parse_dictionary_loop(fields, i, acc) ==
    IF i > Len(fields) \/ acc.err # NoError THEN acc
    ELSE parse_dictionary_loop(fields, i + 1, parse_dictionary_field(acc, fields[i]))

\* `and` in place of `or`.
MissingBoth(acc) == ~acc.has_id /\ ~acc.has_name

\* dict_id is None or name is None
MissingRequired(acc) == ~acc.has_id \/ ~acc.has_name

\* The end of parse_dictionary, acc being the locals after the loop.
parse_dictionary_return(acc) ==
    IF acc.err # NoError THEN DictError(acc.err)
    ELSE IF MissingRequired(acc) THEN DictError(ProtoDecodeError)
    ELSE [err |-> NoError,
          dict |-> DictionaryData(acc.dict_id, acc.name, acc.entries, acc.unknown)]

\* parse_dictionary after parse_fields(raw) gave pf.
parse_dictionary_fields(pf) ==
    IF pf.err # NoError THEN DictError(pf.err)
    ELSE parse_dictionary_return(
             parse_dictionary_loop(pf.fields, 1,
                 [err |-> NoError, has_id |-> FALSE, dict_id |-> <<>>,
                  has_name |-> FALSE, name |-> <<>>,
                  entries |-> <<>>, unknown |-> <<>>]))

parse_dictionary(raw) == parse_dictionary_fields(parse_fields(raw))

StorageError(e) == [err |-> e, dictionaries |-> <<>>, unknown_fields |-> <<>>]

\* dictionaries.append(parse_dictionary(value)), d being the parse.
append_dictionary(acc, d) ==
    IF d.err # NoError THEN StorageError(d.err)
    ELSE [acc EXCEPT !.dictionaries = Append(@, d.dict)]

\* The body of the for loop of parse_storage.
parse_storage_field(acc, f) ==
    IF IsField(f, STORAGE_FIELD_DICTIONARY, WIRE_LENGTH_DELIMITED)
    THEN append_dictionary(acc, parse_dictionary(f.bval))
    ELSE [acc EXCEPT !.unknown_fields = Append(@, f)]

RECURSIVE parse_storage_loop(_, _, _)
parse_storage_loop(fields, i, acc) ==
    IF i > Len(fields) \/ acc.err # NoError THEN acc
    ELSE parse_storage_loop(fields, i + 1, parse_storage_field(acc, fields[i]))

\* parse_storage after parse_fields(raw) gave pf.
parse_storage_fields(pf) ==
    IF pf.err # NoError THEN StorageError(pf.err)
    ELSE parse_storage_loop(pf.fields, 1,
             [err |-> NoError, dictionaries |-> <<>>, unknown_fields |-> <<>>])

\* parse_storage(raw) -> (dictionaries, unknown_fields), or the exception.
parse_storage(raw) == parse_storage_fields(parse_fields(raw))

\* return value.decode("utf-8"), or None on UnicodeDecodeError.
entry_key_of(s) ==
    IF s.err # NoError THEN [err |-> NoError, none |-> TRUE, key |-> <<>>]
    ELSE [err |-> NoError, none |-> FALSE, key |-> s.str]

RECURSIVE parse_entry_key_loop(_, _)
\* The first KEY field decides: its str, or None when it is not UTF-8.
parse_entry_key_loop(fields, i) ==
    IF i > Len(fields) THEN [err |-> NoError, none |-> TRUE, key |-> <<>>]
    ELSE IF IsField(fields[i], ENTRY_FIELD_KEY, WIRE_LENGTH_DELIMITED)
    THEN entry_key_of(utf8_decode(fields[i].bval))
    ELSE parse_entry_key_loop(fields, i + 1)

\* parse_entry_key after parse_fields(raw) gave pf: the exception goes up.
parse_entry_key_fields(pf) ==
    IF pf.err # NoError THEN [err |-> pf.err, none |-> TRUE, key |-> <<>>]
    ELSE parse_entry_key_loop(pf.fields, 1)

\* parse_entry_key(raw) -> str | None; parse_fields may raise.
parse_entry_key(raw) == parse_entry_key_fields(parse_fields(raw))

\* build_entry for pos >= 0 (encode_varint raises ValueError below zero).
build_entry(key, value, comment, pos) ==
       encode_raw_field(IntToBig(ENTRY_FIELD_KEY), WIRE_LENGTH_DELIMITED, <<>>, utf8_encode(key))
    \o encode_raw_field(IntToBig(ENTRY_FIELD_VALUE), WIRE_LENGTH_DELIMITED, <<>>, utf8_encode(value))
    \o encode_raw_field(IntToBig(ENTRY_FIELD_COMMENT), WIRE_LENGTH_DELIMITED, <<>>, utf8_encode(comment))
    \o encode_raw_field(IntToBig(ENTRY_FIELD_POS), WIRE_VARINT, IntToBig(pos), <<>>)

RECURSIVE encode_entries(_)
\* for entry in data.entries_raw: parts.append(...)
encode_entries(entries) ==
    IF entries = <<>> THEN <<>>
    ELSE encode_raw_field(IntToBig(DICT_FIELD_ENTRY), WIRE_LENGTH_DELIMITED, <<>>, entries[1])
         \o encode_entries(Tail(entries))

RECURSIVE encode_fields(_)
\* for field_number, wire_type, value in unknown_fields: parts.append(...)
encode_fields(fields) ==
    IF fields = <<>> THEN <<>>
    ELSE encode_raw_field(fields[1].num, fields[1].wt, fields[1].ival, fields[1].bval)
         \o encode_fields(Tail(fields))

\* build_dictionary without its second loop.
build_dictionary_no_unknown(data) ==
       encode_raw_field(IntToBig(DICT_FIELD_ID), WIRE_VARINT, data.dict_id, <<>>)
    \o encode_raw_field(IntToBig(DICT_FIELD_NAME), WIRE_LENGTH_DELIMITED, <<>>, utf8_encode(data.name))
    \o encode_entries(data.entries_raw)

build_dictionary(data) ==
       encode_raw_field(IntToBig(DICT_FIELD_ID), WIRE_VARINT, data.dict_id, <<>>)
    \o encode_raw_field(IntToBig(DICT_FIELD_NAME), WIRE_LENGTH_DELIMITED, <<>>, utf8_encode(data.name))
    \o encode_entries(data.entries_raw)
    \o encode_fields(data.unknown_fields)

RECURSIVE encode_dictionaries(_)
encode_dictionaries(dictionaries) ==
    IF dictionaries = <<>> THEN <<>>
    ELSE encode_raw_field(IntToBig(STORAGE_FIELD_DICTIONARY), WIRE_LENGTH_DELIMITED,
                          <<>>, build_dictionary(dictionaries[1]))
         \o encode_dictionaries(Tail(dictionaries))

\* build_storage without its second loop.
build_storage_no_unknown(dictionaries, unknown_fields) ==
    encode_dictionaries(dictionaries)

build_storage(dictionaries, unknown_fields) ==
    encode_dictionaries(dictionaries) \o encode_fields(unknown_fields)

\* -------------------------------------------------------------------- merge
\* A Config as update_dictionary reads it: dictionary_name, pos and days; each
\* day carries its key and `rendered`, the strings format_date yields for the
\* day's date under config.formats, in the order of the formats.
RECURSIVE unique_preserve_loop(_, _, _)
unique_preserve_loop(items, seen, result) ==
    IF items = <<>> THEN result
    ELSE IF items[1] \in seen
    THEN unique_preserve_loop(Tail(items), seen, result)
    ELSE unique_preserve_loop(Tail(items), seen \cup {items[1]}, Append(result, items[1]))

unique_preserve(items) == unique_preserve_loop(items, {}, <<>>)

RECURSIVE values_by_key_loop(_, _, _)
\* values_by_key[item.key] = values, for item in config.days: a later day
\* with the same key replaces the earlier one.
values_by_key_loop(days, i, values_by_key) ==
    IF i > Len(days) THEN values_by_key
    ELSE values_by_key_loop(days, i + 1,
             [k \in DOMAIN values_by_key \cup {days[i].key} |->
                 IF k = days[i].key THEN unique_preserve(days[i].rendered)
                 ELSE values_by_key[k]])

\* build_values_by_key(config, today) -> (keys_in_order, values_by_key)
build_values_by_key(config) ==
    [keys_in_order |-> [i \in 1..Len(config.days) |-> config.days[i].key],
     values_by_key |-> values_by_key_loop(config.days, 1, [k \in {} |-> <<>>])]

RECURSIVE entries_for_values(_, _, _)
\* for value in values_by_key[key]: entries.append(build_entry(key, value, comment, pos))
entries_for_values(key, values, pos) ==
    IF values = <<>> THEN <<>>
    ELSE <<build_entry(key, values[1], <<>>, pos)>>
         \o entries_for_values(key, Tail(values), pos)

RECURSIVE build_entries_for_keys(_, _, _)
build_entries_for_keys(keys_in_order, values_by_key, pos) ==
    IF keys_in_order = <<>> THEN <<>>
    ELSE entries_for_values(keys_in_order[1], values_by_key[keys_in_order[1]], pos)
         \o build_entries_for_keys(Tail(keys_in_order), values_by_key, pos)

\* A filter that removes nothing.
KeepEveryEntry(k, keys_to_remove) == TRUE

\* A filter that also removes the entries without a key.
KeepOnlyKeyed(k, keys_to_remove) == ~k.none /\ k.key \notin keys_to_remove

\* key is None or key not in keys_to_remove
KeepEntry(k, keys_to_remove) == k.none \/ k.key \notin keys_to_remove

\* The body of the for loop of filter_entries_by_key, k being
\* parse_entry_key(entry).
filter_entry(acc, entry, k, keys_to_remove) ==
    IF k.err # NoError THEN [err |-> k.err, kept |-> <<>>]
    ELSE IF KeepEntry(k, keys_to_remove) THEN [acc EXCEPT !.kept = Append(@, entry)]
    ELSE acc

RECURSIVE filter_entries_by_key_loop(_, _, _, _)
filter_entries_by_key_loop(entries, i, keys_to_remove, acc) ==
    IF i > Len(entries) \/ acc.err # NoError THEN acc
    ELSE filter_entries_by_key_loop(entries, i + 1, keys_to_remove,
             filter_entry(acc, entries[i], parse_entry_key(entries[i]), keys_to_remove))

\* filter_entries_by_key(entries, keys_to_remove) -> kept, or the exception
\* parse_entry_key raised.
filter_entries_by_key(entries, keys_to_remove) ==
    filter_entries_by_key_loop(entries, 1, keys_to_remove, [err |-> NoError, kept |-> <<>>])

\* secrets.randbits(64): the draws the model considers, 2^64 - 1 among them.
RandBits64 ==
    { <<>>, <<1>>, <<2>>, <<3>>, <<127, 127, 127, 127, 127, 127, 127, 127, 127, 1>> }

\* A draw checked against zero only.
AcceptNonZero(candidate, existing) == candidate # <<>>

\* candidate != 0 and candidate not in existing
AcceptCandidate(candidate, existing) ==
    candidate # <<>> /\ candidate \notin existing

\* generate_dictionary_id(existing) returns `candidate`: the loop ends on a
\* draw it accepts.
generate_dictionary_id(existing, candidate) ==
    candidate \in RandBits64 /\ AcceptCandidate(candidate, existing)

Range(s) == {s[i] : i \in 1..Len(s)}

\* {d.dict_id for d in dictionaries}
existing_ids(dictionaries) == {dictionaries[i].dict_id : i \in 1..Len(dictionaries)}

\* [i for i, d in enumerate(dictionaries) if d.name == config.dictionary_name]
target_indices(dictionaries, dictionary_name) ==
    {i \in 1..Len(dictionaries) : dictionaries[i].name = dictionary_name}

\* target_indices[0]
FirstIndex(indices) == CHOOSE m \in indices : \A n \in indices : m <= n

RECURSIVE SumLens(_, _)
\* sum(len(values_by_key[key]) for key in keys_in_order)
SumLens(keys_in_order, values_by_key) ==
    IF keys_in_order = <<>> THEN 0
    ELSE Len(values_by_key[keys_in_order[1]]) + SumLens(Tail(keys_in_order), values_by_key)

NoStats ==
    [dictionary_name |-> <<>>, dictionary_id |-> <<>>, created |-> FALSE,
     keys |-> 0, entries |-> 0]

\* update_dictionary raising e: nothing is returned.
UpdateError(e) ==
    [err |-> e, new_raw |-> <<>>, stats |-> NoStats,
     dictionaries |-> <<>>, unknown_fields |-> <<>>, updated_index |-> 0]

\* update_dictionary returning (new_raw, stats); dictionaries, unknown_fields
\* and updated_index are its locals at the return.
UpdateResult(config, dictionaries, unknown_fields, updated_index, created, bv) ==
    [err |-> NoError,
     new_raw |-> build_storage(dictionaries, unknown_fields),
     stats |-> [dictionary_name |-> config.dictionary_name,
                dictionary_id |-> dictionaries[updated_index].dict_id,
                created |-> created,
                keys |-> Len(bv.keys_in_order),
                entries |-> SumLens(bv.keys_in_order, bv.values_by_key)],
     dictionaries |-> dictionaries,
     unknown_fields |-> unknown_fields,
     updated_index |-> updated_index]

\* The draw is one generate_dictionary_id goes on from, not one it returns.
Redraw == "redraw"

\* The branch `if not target_indices`: a new dictionary after the others.
create_dictionary(st, config, bv, new_entries, new_id) ==
    IF ~generate_dictionary_id(existing_ids(st.dictionaries), new_id)
    THEN UpdateError(Redraw)
    ELSE UpdateResult(config,
             Append(st.dictionaries,
                    DictionaryData(new_id, config.dictionary_name, new_entries, <<>>)),
             st.unknown_fields, Len(st.dictionaries) + 1, TRUE, bv)

\* The target rebuilt from its id, name and entries alone.
replace_dictionary(st, config, bv, new_entries, updated_index, kept) ==
    IF kept.err # NoError THEN UpdateError(kept.err)
    ELSE UpdateResult(config,
             [st.dictionaries EXCEPT ![updated_index] =
                 DictionaryData(@.dict_id, @.name, kept.kept \o new_entries, <<>>)],
             st.unknown_fields, updated_index, FALSE, bv)

\* target_dict.entries_raw = kept_entries + new_entries, kept being the
\* outcome of filter_entries_by_key.
replace_entries(st, config, bv, new_entries, updated_index, kept) ==
    IF kept.err # NoError THEN UpdateError(kept.err)
    ELSE UpdateResult(config,
             [st.dictionaries EXCEPT ![updated_index].entries_raw = kept.kept \o new_entries],
             st.unknown_fields, updated_index, FALSE, bv)

\* The else branch: the first dictionary of the name is the target.
update_existing(st, config, bv, new_entries, updated_index) ==
    replace_entries(st, config, bv, new_entries, updated_index,
        filter_entries_by_key(st.dictionaries[updated_index].entries_raw,
                              Range(bv.keys_in_order)))

\* update_dictionary from target_indices on.
update_target(st, config, bv, new_entries, new_id, targets) ==
    IF targets = {} THEN create_dictionary(st, config, bv, new_entries, new_id)
    ELSE update_existing(st, config, bv, new_entries, FirstIndex(targets))

\* update_dictionary from build_entries_for_keys on: build_entry raises
\* ValueError for a negative pos.
update_entries(st, config, bv, new_id) ==
    IF config.pos < 0 /\ SumLens(bv.keys_in_order, bv.values_by_key) > 0
    THEN UpdateError(ValueError)
    ELSE update_target(st, config, bv,
             build_entries_for_keys(bv.keys_in_order, bv.values_by_key, config.pos),
             new_id, target_indices(st.dictionaries, config.dictionary_name))

\* update_dictionary after parse_storage(raw) gave st.
update_parsed(st, config, new_id) ==
    IF st.err # NoError THEN UpdateError(st.err)
    ELSE update_entries(st, config, build_values_by_key(config), new_id)

\* update_dictionary(raw, config, today); new_id is the draw of
\* generate_dictionary_id.
update_dictionary(raw, config, new_id) ==
    update_parsed(parse_storage(raw), config, new_id)

\* ------------------------------------------------------------------- inputs
RECURSIVE Flatten(_)
\* b"".join(parts)
Flatten(parts) == IF parts = <<>> THEN <<>> ELSE parts[1] \o Flatten(Tail(parts))

\* All sequences of at most n elements of S.
RECURSIVE SeqsUpTo(_, _)
SeqsUpTo(S, n) ==
    IF n = 0 THEN {<<>>}
    ELSE LET shorter == SeqsUpTo(S, n - 1)
         IN  shorter \cup {Append(q, e) : q \in {r \in shorter : Len(r) = n - 1}, e \in S}

SeqsFromTo(S, m, n) == {q \in SeqsUpTo(S, n) : Len(q) >= m}

\* A length-delimited field written by hand: one tag byte, a one-byte length.
Delimited(tagByte, payload) == <<tagByte, Len(payload)>> \o payload

\* Largest number of field pieces in a generated dictionary record (codec).
MaxDictFields == 4
\* Largest number of prior entries in the generated target dictionary.
MaxEntries == 2
\* Largest number of days in a generated config.
MaxDays == 2
\* Largest number of formats in a generated config.
MaxFormats == 2
\* Longest buffer handed to decode_varint on its own.
MaxVarintLen == 12

StrT == <<84>>
StrO == <<79>>
KeyA == <<65>>
KeyE == <<233>>
ValX == <<120>>
ValY == <<121>>

\* Encoded fields of a dictionary record: id 1, id 1 in two bytes, name "T",
\* an entry with key "A", an unknown varint field 5 of value 300, a name cut
\* short.
CodecDictPieces ==
    { <<8, 1>>, <<8, 129, 0>>, <<26, 1, 84>>, <<34, 3, 10, 1, 65>>, <<40, 172, 2>>,
      <<26, 5, 84>> }

CodecPayloads == {Flatten(q) : q \in SeqsUpTo(CodecDictPieces, MaxDictFields)}

\* What may stand before and after the generated dictionary at top level:
\* nothing, unknown fields (varint, varint in two bytes, fixed32, fixed64,
\* field 2 as a varint), a dictionary "O" with id 2, an unsupported wire
\* type, a dictionary field cut short.
TopContexts ==
    { <<>>, <<8, 7>>, <<8, 135, 0>>, <<21, 1, 2, 3, 4>>,
      <<25, 1, 2, 3, 4, 5, 6, 7, 8>>, <<16, 5>>,
      <<18, 5, 8, 2, 26, 1, 79>>, <<11>>, <<18, 9, 8>> }

CodecBuffers ==
    TopContexts
    \cup {pre \o Delimited(18, p) \o post :
            pre \in TopContexts, p \in CodecPayloads, post \in {<<>>, <<8, 7>>, <<18, 5, 8, 2, 26, 1, 79>>}}

\* Entry blobs of the stored target dictionary: key "A"; key "B"; key U+00E9;
\* no KEY field; a KEY that is not UTF-8; a blob cut short; VALUE before
\* KEY "A"; an invalid KEY followed by KEY "A".
EntryBlobs ==
    { <<10, 1, 65>>, <<10, 1, 66>>, <<10, 2, 195, 169>>, <<18, 1, 120>>,
      <<10, 1, 255>>, <<10, 5, 65>>, <<18, 0, 10, 1, 65>>,
      <<10, 1, 255, 10, 1, 65>> }

RECURSIVE EntryFields(_)
EntryFields(blobs) ==
    IF blobs = <<>> THEN <<>> ELSE Delimited(34, blobs[1]) \o EntryFields(Tail(blobs))

\* One dictionary "T" with id 1 and every choice of prior entries.
EntryBuffers ==
    {Delimited(18, <<8, 1, 26, 1, 84>> \o EntryFields(es)) :
        es \in SeqsUpTo(EntryBlobs, MaxEntries)}

\* Dictionary records for the structure cases: "T" and "O" as build_dictionary
\* lays them out, with entries and unknown fields; "T" and "O" with the name
\* before the id and an unknown field (a varint in two bytes) before the
\* entry; "T" with a two-byte id; a bad entry in "O"; no id; no name; a name
\* that is not UTF-8; a fixed32 cut short; wire type 3.
StructPayloads ==
    { <<8, 1, 26, 1, 84, 34, 3, 10, 1, 65, 40, 7, 53, 1, 2, 3, 4>>,
      <<8, 1, 26, 1, 79, 34, 3, 10, 1, 65, 40, 7>>,
      <<26, 1, 84, 40, 135, 0, 8, 1, 34, 3, 10, 1, 65>>,
      <<26, 1, 79, 40, 135, 0, 8, 1, 34, 3, 10, 1, 65>>,
      <<8, 129, 0, 26, 1, 84>>,
      <<8, 1, 26, 1, 79, 34, 3, 10, 5, 65>>,
      <<26, 1, 84, 40, 7>>,
      <<8, 1, 40, 7>>,
      <<8, 1, 26, 1, 255>>,
      <<8, 1, 26, 1, 84, 53, 1, 2>>,
      <<8, 1, 26, 1, 84, 11>> }

\* Contexts of the structure cases: those of the codec and a second "T".
StructContexts == TopContexts \cup { <<18, 10, 8, 2, 26, 1, 84, 34, 3, 10, 1, 65>> }

StructBuffers ==
    StructContexts
    \cup {pre \o Delimited(18, p) \o post :
            pre \in StructContexts, p \in StructPayloads, post \in StructContexts}

\* Two dictionaries "T": the first with id 1 and one entry blob of any kind,
\* the second with id 2 and an entry with key "A".
DuplicateBuffers ==
    {Delimited(18, <<8, 1, 26, 1, 84>> \o EntryFields(<<e>>))
        \o <<18, 10, 8, 2, 26, 1, 84, 34, 3, 10, 1, 65>> : e \in EntryBlobs}

\* The outputs of format_date for one day, in the order of config.formats:
\* every day of a config is rendered with the same n formats.
RenderedLists(n) == {q \in SeqsUpTo({ValX, ValY}, n) : Len(q) = n}

DayItems(n) == {[key |-> k, rendered |-> r] : k \in {KeyA, KeyE}, r \in RenderedLists(n)}

MkConfig(pos, days) == [dictionary_name |-> StrT, pos |-> pos, days |-> days]

\* Every config of at most MaxDays days and MaxFormats formats (at least one
\* of each, as parse_config requires), for the target "T" and pos 1.
Configs ==
    UNION {{MkConfig(1, days) : days \in SeqsFromTo(DayItems(n), 1, MaxDays)} :
            n \in 1..MaxFormats}

\* The buffers every config is applied to: the empty one, and one with the
\* target holding entries of two keys of the configs and of another key.
ConfigBuffers ==
    { <<>>,
      Delimited(18, <<8, 1, 26, 1, 84>>
                    \o EntryFields(<<<<10, 1, 65>>, <<10, 2, 195, 169>>, <<10, 1, 66>>>>)) }

\* The configs every buffer is updated with: one key; two keys, repeated
\* values and a two-byte pos; a negative pos; twice the same key.
FewConfigs ==
    { MkConfig(1, <<[key |-> KeyA, rendered |-> <<ValX>>]>>),
      MkConfig(300, <<[key |-> KeyE, rendered |-> <<ValX, ValX>>],
                      [key |-> KeyA, rendered |-> <<ValY, ValX>>]>>),
      MkConfig(-1, <<[key |-> KeyA, rendered |-> <<ValX>>]>>),
      MkConfig(1, <<[key |-> KeyE, rendered |-> <<ValX>>],
                    [key |-> KeyE, rendered |-> <<ValY>>]>>) }

VarintBuffers == SeqsUpTo({129, 1}, MaxVarintLen)

\* -------------------------------------------------------------------- state
VARIABLES
    pc,        \* where the run stands
    raw,       \* the buffer read (data, for decode_varint)
    config,    \* the Config of the update
    parsed,    \* parse_storage(raw)
    rebuilt,   \* build_storage of parsed
    reparsed,  \* parse_storage(rebuilt)
    first,     \* update_dictionary(raw, config, today)
    second,    \* update_dictionary(first.new_raw, config, today)
    vst,       \* the locals of decode_varint
    args,      \* the command line of main
    files,     \* the dictionary file, its backup and its temporary file
    files0,    \* files when main started
    log,       \* what main did to the file system, in order
    ret        \* the return value of main

mainVars == <<args, files, files0, log, ret>>

vars == <<pc, raw, config, parsed, rebuilt, reparsed, first, second, vst,
          args, files, files0, log, ret>>

NoConfig == MkConfig(0, <<>>)
NotParsed == StorageError("unset")
NotUpdated == UpdateError("unset")
NoVarint == [status |-> "unset", index |-> 0, shift |-> 0, result |-> <<>>]

\* A path that does not exist, and a file with its bytes.
NoFile == [exists |-> FALSE, data |-> <<>>]
File(data) == [exists |-> TRUE, data |-> data]

NoArgs == [usable |-> FALSE, dry_run |-> FALSE, no_backup |-> FALSE, reload |-> FALSE]
NoFiles == [file |-> NoFile, backup |-> NoFile, temp |-> NoFile]
NotReturned == "none"

\* main is not running.
NoMain ==
    /\ args = NoArgs
    /\ files = NoFiles
    /\ files0 = NoFiles
    /\ log = <<>>
    /\ ret = NotReturned

\* ------------------------------------------------- parse / build round trip
InitCodec ==
    /\ pc = "input"
    /\ raw \in CodecBuffers
    /\ config = NoConfig
    /\ parsed = NotParsed
    /\ rebuilt = <<>>
    /\ reparsed = NotParsed
    /\ first = NotUpdated
    /\ second = NotUpdated
    /\ vst = NoVarint
    /\ NoMain

Parse ==
    /\ pc = "input"
    /\ parsed' = parse_storage(raw)
    /\ pc' = IF parsed'.err = NoError THEN "parsed" ELSE "rejected"
    /\ UNCHANGED <<raw, config, rebuilt, reparsed, first, second, vst>>
    /\ UNCHANGED mainVars

Build ==
    /\ pc = "parsed"
    /\ rebuilt' = build_storage(parsed.dictionaries, parsed.unknown_fields)
    /\ pc' = "built"
    /\ UNCHANGED <<raw, config, parsed, reparsed, first, second, vst>>
    /\ UNCHANGED mainVars

Reparse ==
    /\ pc = "built"
    /\ reparsed' = parse_storage(rebuilt)
    /\ pc' = "reparsed"
    /\ UNCHANGED <<raw, config, parsed, rebuilt, first, second, vst>>
    /\ UNCHANGED mainVars

NextCodec == Parse \/ Build \/ Reparse

SpecCodec == InitCodec /\ [][NextCodec]_vars

\* ------------------------------------------------------- update_dictionary
InitUpdate ==
    /\ pc = "input"
    /\ \/ raw \in EntryBuffers \cup StructBuffers \cup DuplicateBuffers
          /\ config \in FewConfigs
       \/ raw \in ConfigBuffers /\ config \in Configs
    /\ parsed = NotParsed
    /\ rebuilt = <<>>
    /\ reparsed = NotParsed
    /\ first = NotUpdated
    /\ second = NotUpdated
    /\ vst = NoVarint
    /\ NoMain

\* `if not target_indices:` after a parse that did not raise.
Creates(st, cfg) ==
    st.err = NoError /\ target_indices(st.dictionaries, cfg.dictionary_name) = {}

\* The draws of secrets.randbits(64) a run can see: generate_dictionary_id is
\* called only when the dictionary is created.
Draws(data, cfg) == IF Creates(parse_storage(data), cfg) THEN RandBits64 ELSE {<<>>}

Update ==
    /\ pc = "input"
    /\ \E new_id \in Draws(raw, config) :
          first' = update_dictionary(raw, config, new_id)
    /\ first'.err # Redraw
    /\ pc' = IF first'.err = NoError THEN "updated" ELSE "failed"
    /\ UNCHANGED <<raw, config, parsed, rebuilt, reparsed, second, vst>>
    /\ UNCHANGED mainVars

UpdateAgain ==
    /\ pc = "updated"
    /\ \E new_id \in Draws(first.new_raw, config) :
          second' = update_dictionary(first.new_raw, config, new_id)
    /\ second'.err # Redraw
    /\ pc' = "again"
    /\ UNCHANGED <<raw, config, parsed, rebuilt, reparsed, first, vst>>
    /\ UNCHANGED mainVars

NextUpdate == Update \/ UpdateAgain

Spec == InitUpdate /\ [][NextUpdate]_vars

\* ------------------------------------------------------------ decode_varint
InitVarint ==
    /\ pc = "varint"
    /\ raw \in VarintBuffers
    /\ config = NoConfig
    /\ parsed = NotParsed
    /\ rebuilt = <<>>
    /\ reparsed = NotParsed
    /\ first = NotUpdated
    /\ second = NotUpdated
    /\ vst = decode_varint_start(0)
    /\ NoMain

DecodeVarintStep ==
    /\ pc = "varint"
    /\ vst.status = "run"
    /\ vst' = decode_varint_step(raw, vst)
    /\ UNCHANGED <<pc, raw, config, parsed, rebuilt, reparsed, first, second>>
    /\ UNCHANGED mainVars

NextVarint == DecodeVarintStep

SpecVarint == InitVarint /\ [][NextVarint]_vars

\* --------------------------------------------------------------------- main
\* What the dictionary file may hold when main starts: nothing; a field cut
\* short; a dictionary whose name is not UTF-8; the target "T" with an entry
\* of key "A"; an unknown field before another dictionary; what an earlier
\* run wrote for a config.
MainBuffers ==
    { <<>>,
      <<18, 9, 8>>,
      Delimited(18, <<8, 1, 26, 1, 255>>),
      Delimited(18, <<8, 1, 26, 1, 84>> \o EntryFields(<<<<10, 1, 65>>>>)),
      <<8, 7, 18, 5, 8, 2, 26, 1, 79>> }
    \cup {update_dictionary(<<>>, c, <<1>>).new_raw : c \in {d \in FewConfigs : d.pos >= 0}}

\* args.usable: the config file exists, parse_config accepts it and --today,
\* when given, is a date.
MainArgs == [usable : BOOLEAN, dry_run : BOOLEAN, no_backup : BOOLEAN, reload : BOOLEAN]

\* The dictionary file is missing or holds a buffer; a backup of the same
\* second may exist.
InitMain ==
    /\ pc = "main"
    /\ raw = <<>>
    /\ config \in FewConfigs
    /\ parsed = NotParsed
    /\ rebuilt = <<>>
    /\ reparsed = NotParsed
    /\ first = NotUpdated
    /\ second = NotUpdated
    /\ vst = NoVarint
    /\ args \in MainArgs
    /\ files \in [file : {NoFile} \cup {File(b) : b \in MainBuffers},
                  backup : {NoFile, File(<<0>>)},
                  temp : {NoFile}]
    /\ files0 = files
    /\ log = <<>>
    /\ ret = NotReturned

codecVars == <<parsed, rebuilt, reparsed, second, vst>>

\* main up to `today`: the three early `return 1`.
MainLoad ==
    /\ pc = "main"
    /\ pc' = IF args.usable THEN "read" ELSE "returned"
    /\ ret' = IF args.usable THEN ret ELSE 1
    /\ UNCHANGED <<raw, config, first, args, files, files0, log>>
    /\ UNCHANGED codecVars

\* raw = config.db_path.read_bytes() if config.db_path.exists() else b""
MainRead ==
    /\ pc = "read"
    /\ \/ /\ raw' = IF files.file.exists THEN files.file.data ELSE <<>>
          /\ pc' = "update"
       \/ /\ files.file.exists
          /\ pc' = "raised"
          /\ raw' = raw
    /\ UNCHANGED <<config, first, args, files, files0, log, ret>>
    /\ UNCHANGED codecVars

\* The try around update_dictionary: only ProtoDecodeError is caught.
MainUpdate ==
    /\ pc = "update"
    /\ \E new_id \in Draws(raw, config) :
          first' = update_dictionary(raw, config, new_id)
    /\ first'.err # Redraw
    /\ pc' = IF first'.err = NoError THEN "decide"
             ELSE IF first'.err = ProtoDecodeError THEN "returned"
             ELSE "raised"
    /\ ret' = IF first'.err = ProtoDecodeError THEN 1 ELSE ret
    /\ UNCHANGED <<raw, config, args, files, files0, log>>
    /\ UNCHANGED codecVars

\* if args.dry_run: ... return 0
MainDryRun ==
    /\ pc = "decide"
    /\ args.dry_run
    /\ pc' = "returned"
    /\ ret' = 0
    /\ UNCHANGED <<raw, config, first, args, files, files0, log>>
    /\ UNCHANGED codecVars

\* A buffer taken for unchanged only when it is empty.
NoChangesIfEmpty(new_raw, old_raw) == new_raw = <<>>

\* new_raw == raw
NoChanges(new_raw, old_raw) == new_raw = old_raw

\* if new_raw == raw: ... return 0
MainNoChanges ==
    /\ pc = "decide"
    /\ ~args.dry_run
    /\ NoChanges(first.new_raw, raw)
    /\ pc' = "returned"
    /\ ret' = 0
    /\ UNCHANGED <<raw, config, first, args, files, files0, log>>
    /\ UNCHANGED codecVars

\* The call of write_atomic, up to the making of the parent directory.
MainWrite ==
    /\ pc = "decide"
    /\ ~args.dry_run
    /\ ~NoChanges(first.new_raw, raw)
    /\ pc' = "backup"
    /\ UNCHANGED <<raw, config, first, args, files, files0, log, ret>>
    /\ UNCHANGED codecVars

\* write_atomic: shutil.copy2(path, backup_path) when a backup is asked for
\* and the file exists; the copy may raise OSError.
WriteBackup ==
    /\ pc = "backup"
    /\ IF ~args.no_backup /\ files.file.exists
       THEN \/ /\ files' = [files EXCEPT !.backup = File(files.file.data)]
               /\ log' = Append(log, [op |-> "copy", data |-> files.file.data])
               /\ pc' = "temp"
            \/ /\ pc' = "raised"
               /\ UNCHANGED <<files, log>>
       ELSE /\ pc' = "temp"
            /\ UNCHANGED <<files, log>>
    /\ UNCHANGED <<raw, config, first, args, files0, ret>>
    /\ UNCHANGED codecVars

\* write_atomic: temp_path.write_bytes(data) and the chmod of the temporary
\* file; the write may raise OSError.
WriteTemp ==
    /\ pc = "temp"
    /\ \/ /\ files' = [files EXCEPT !.temp = File(first.new_raw)]
          /\ log' = Append(log, [op |-> "temp", data |-> first.new_raw])
          /\ pc' = "replace"
       \/ /\ pc' = "raised"
          /\ UNCHANGED <<files, log>>
    /\ UNCHANGED <<raw, config, first, args, files0, ret>>
    /\ UNCHANGED codecVars

\* write_atomic: os.replace(temp_path, path), which may raise OSError.
WriteReplace ==
    /\ pc = "replace"
    /\ \/ /\ files' = [files EXCEPT !.file = files.temp, !.temp = NoFile]
          /\ log' = Append(log, [op |-> "replace", data |-> files.temp.data])
          /\ pc' = "report"
       \/ /\ pc' = "raised"
          /\ UNCHANGED <<files, log>>
    /\ UNCHANGED <<raw, config, first, args, files0, ret>>
    /\ UNCHANGED codecVars

\* main after write_atomic: the messages, the reload when asked for, return 0.
MainReport ==
    /\ pc = "report"
    /\ log' = IF args.reload THEN Append(log, [op |-> "reload", data |-> <<>>]) ELSE log
    /\ pc' = "returned"
    /\ ret' = 0
    /\ UNCHANGED <<raw, config, first, args, files, files0>>
    /\ UNCHANGED codecVars

NextMain ==
    \/ MainLoad
    \/ MainRead
    \/ MainUpdate
    \/ MainDryRun
    \/ MainNoChanges
    \/ MainWrite
    \/ WriteBackup
    \/ WriteTemp
    \/ WriteReplace
    \/ MainReport

SpecMain == InitMain /\ [][NextMain]_vars

\* ------------------------------------------------------ reading the bytes
\* The fields of a well-formed buffer as they stand in it: each with its
\* source bytes, the bytes of its tag, the bytes of its varint (the value of
\* a varint field, the length of a length-delimited one) and its payload.
RECURSIVE RawFieldsFrom(_, _)
RawFieldsFrom(b, index) ==
    IF index >= Len(b) THEN <<>>
    ELSE
    LET tag == decode_varint(b, index)
        wt == Low3(tag.value)
        v == decode_varint(b, tag.index)
        end == IF wt = WIRE_VARINT THEN v.index
               ELSE IF wt = WIRE_LENGTH_DELIMITED THEN v.index + BigToInt(v.value)
               ELSE IF wt = WIRE_64BIT THEN tag.index + 8
               ELSE tag.index + 4
        hasVarint == wt \in {WIRE_VARINT, WIRE_LENGTH_DELIMITED}
    IN  <<[num |-> ShiftRight3(tag.value),
           wt |-> wt,
           bytes |-> SubSeq(b, index + 1, end),
           tagBytes |-> SubSeq(b, index + 1, tag.index),
           varBytes |-> IF hasVarint THEN SubSeq(b, tag.index + 1, v.index) ELSE <<>>,
           payload |-> IF wt = WIRE_LENGTH_DELIMITED THEN SubSeq(b, v.index + 1, end)
                       ELSE <<>>]>>
        \o RawFieldsFrom(b, end)

RawFields(b) == RawFieldsFrom(b, 0)

\* A varint in its shortest encoding: no final zero byte after other bytes.
ShortestVarint(bytes) == Len(bytes) <= 1 \/ bytes[Len(bytes)] # 0

ShortestVarints(f) == ShortestVarint(f.tagBytes) /\ ShortestVarint(f.varBytes)

IsRaw(f, number, wire_type) == f.num = IntToBig(number) /\ f.wt = wire_type

IsRawDictionary(f) == IsRaw(f, STORAGE_FIELD_DICTIONARY, WIRE_LENGTH_DELIMITED)
IsRawId(f) == IsRaw(f, DICT_FIELD_ID, WIRE_VARINT)
IsRawName(f) == IsRaw(f, DICT_FIELD_NAME, WIRE_LENGTH_DELIMITED)
IsRawEntry(f) == IsRaw(f, DICT_FIELD_ENTRY, WIRE_LENGTH_DELIMITED)
IsRawUnknown(f) == ~IsRawId(f) /\ ~IsRawName(f) /\ ~IsRawEntry(f)

\* A dictionary record laid out as build_dictionary writes one: the id, the
\* name, the entries, the unrecognized fields, every varint the shortest.
LaidOutDictionary(p) ==
    LET fs == RawFields(p) IN
    /\ Len(fs) >= 2
    /\ IsRawId(fs[1])
    /\ IsRawName(fs[2])
    /\ \A i \in 3..Len(fs) : ~IsRawId(fs[i]) /\ ~IsRawName(fs[i])
    /\ \A i \in 3..Len(fs) : \A j \in i..Len(fs) : IsRawEntry(fs[j]) => IsRawEntry(fs[i])
    /\ \A i \in 1..Len(fs) : ShortestVarints(fs[i])

\* A buffer laid out as build_storage writes one: the dictionaries, then the
\* unrecognized fields.
LaidOutStorage(b) ==
    LET fs == RawFields(b) IN
    /\ \A i \in 1..Len(fs) : \A j \in i..Len(fs) : IsRawDictionary(fs[j]) => IsRawDictionary(fs[i])
    /\ \A i \in 1..Len(fs) : ShortestVarints(fs[i])
    /\ \A i \in 1..Len(fs) : IsRawDictionary(fs[i]) => LaidOutDictionary(fs[i].payload)

\* ------------------------------------------------------------------- claims
\* C1 as stated: for every buffer parse_storage accepts, build_storage of the
\* unmodified parse is the buffer itself, whatever the order of its fields.
C1_AnyOrder == pc = "built" => rebuilt = raw

\* C1, amended: for every buffer parse_storage accepts that is laid out as
\* build_storage writes (dictionary fields before unrecognized top-level
\* fields; in each dictionary record the id, then the name, each once, then
\* the entries, then the unrecognized fields; every tag, varint value and
\* length in its shortest encoding), build_storage of the unmodified parse is
\* the buffer itself.
C1_LaidOutRoundTrip == (pc = "built" /\ LaidOutStorage(raw)) => rebuilt = raw

\* A laid-out buffer with a dictionary holding an unrecognized field and with
\* an unrecognized top-level field has been parsed and re-encoded.
C1_Witness ==
    /\ pc = "built"
    /\ LaidOutStorage(raw)
    /\ parsed.unknown_fields # <<>>
    /\ \E i \in 1..Len(parsed.dictionaries) : parsed.dictionaries[i].unknown_fields # <<>>

\* C7: for every Storage a successful parse_storage gives, parsing its
\* re-encoding succeeds and gives the same dictionaries in the same order
\* (id, name, entries, unknown fields) and the same top-level unknown fields
\* in the same order.
C7_ParseOfBuild ==
    pc = "reparsed" =>
        /\ reparsed.err = NoError
        /\ reparsed.dictionaries = parsed.dictionaries
        /\ reparsed.unknown_fields = parsed.unknown_fields

\* A buffer that build_storage does not give back (its fields stand in
\* another order), with entries and unknown fields at both levels, has gone
\* through parse, build and parse.
C7_Witness ==
    /\ pc = "reparsed"
    /\ rebuilt # raw
    /\ Len(parsed.dictionaries) = 2
    /\ parsed.unknown_fields # <<>>
    /\ \E i \in 1..2 : parsed.dictionaries[i].unknown_fields # <<>>

\* ------------------------------------------- reading inputs and outputs
RECURSIVE PickFrom(_, _, _)
\* The elements of seq at the indices in S, in order.
PickFrom(seq, S, i) ==
    IF i > Len(seq) THEN <<>>
    ELSE (IF i \in S THEN <<seq[i]>> ELSE <<>>) \o PickFrom(seq, S, i + 1)

Pick(seq, S) == PickFrom(seq, S, 1)

\* seq without the repetitions of an earlier element.
Dedup(seq) == Pick(seq, {i \in 1..Len(seq) : \A j \in 1..(i - 1) : seq[j] # seq[i]})

NoRepeat(seq) == \A i \in 1..Len(seq) : \A j \in 1..Len(seq) : seq[i] = seq[j] => i = j

BytesOf(fs) == [i \in 1..Len(fs) |-> fs[i].bytes]

\* The top-level fields of b that are dictionary records, and the others.
RawDictionaries(b) ==
    LET fs == RawFields(b) IN Pick(fs, {i \in 1..Len(fs) : IsRawDictionary(fs[i])})
RawTopUnknown(b) ==
    LET fs == RawFields(b) IN Pick(fs, {i \in 1..Len(fs) : ~IsRawDictionary(fs[i])})

\* The fields of a dictionary record p that are none of id, name, entry.
RawDictUnknown(p) ==
    LET fs == RawFields(p) IN Pick(fs, {i \in 1..Len(fs) : IsRawUnknown(fs[i])})

\* The entry blobs of a dictionary record p.
RawEntries(p) ==
    LET fs == RawFields(p)
        es == Pick(fs, {i \in 1..Len(fs) : IsRawEntry(fs[i])})
    IN  [i \in 1..Len(es) |-> es[i].payload]

\* The key of a decodable entry blob: that of its first KEY field, when it is
\* UTF-8.
BlobKey(blob) ==
    LET fs == RawFields(blob)
        ks == Pick(fs, {i \in 1..Len(fs) : IsRaw(fs[i], ENTRY_FIELD_KEY, WIRE_LENGTH_DELIMITED)})
    IN  IF ks = <<>> THEN [none |-> TRUE, key |-> <<>>]
        ELSE LET sd == utf8_decode(ks[1].payload)
             IN  IF sd.err # NoError THEN [none |-> TRUE, key |-> <<>>]
                 ELSE [none |-> FALSE, key |-> sd.str]

\* The bytes of the first VALUE field of an entry blob.
BlobValue(blob) ==
    LET fs == RawFields(blob)
        vs == Pick(fs, {i \in 1..Len(fs) : IsRaw(fs[i], ENTRY_FIELD_VALUE, WIRE_LENGTH_DELIMITED)})
    IN  vs[1].payload

Decodable(b) == parse_fields(b).err = NoError

ConfigKeys(cfg) == {cfg.days[i].key : i \in 1..Len(cfg.days)}

\* The entry the update writes for a key and a value: KEY, VALUE, an empty
\* COMMENT, POS.
EntryBytes(key, value, pos) ==
       Delimited(10, utf8_encode(key)) \o Delimited(18, utf8_encode(value))
    \o <<34, 0>> \o <<40>> \o encode_varint(IntToBig(pos))

\* The day whose values config keeps for a key: the last one of the key.
LastDayOf(cfg, key) ==
    CHOOSE i \in 1..Len(cfg.days) :
        /\ cfg.days[i].key = key
        /\ \A j \in (i + 1)..Len(cfg.days) : cfg.days[j].key # key

\* The entries of one day of the config: one for each distinct value, in
\* first-seen order.
DayEntries(cfg, i) ==
    LET vs == Dedup(cfg.days[LastDayOf(cfg, cfg.days[i].key)].rendered)
    IN  [n \in 1..Len(vs) |-> EntryBytes(cfg.days[i].key, vs[n], cfg.pos)]

\* The new entries of an update: day after day, value after value.
NewEntries(cfg) == Flatten([i \in 1..Len(cfg.days) |-> DayEntries(cfg, i)])

\* The dictionaries of the input, as parse_storage gives them.
OldDictionaries == parse_storage(raw).dictionaries

TargetsIn(ds) == {i \in 1..Len(ds) : ds[i].name = config.dictionary_name}

Updated == pc = "updated"

\* update_dictionary returned, having found its target among the old
\* dictionaries.
UpdatedExisting == Updated /\ ~first.stats.created

\* -------------------------------------------------------------- C2
\* C2 as stated: whenever update_dictionary returns, every dictionary record
\* but the target, and every unrecognized field at top level or in any
\* dictionary, stands in the output with the bytes it had in the input.
C2_BytesKept ==
    Updated =>
        LET ind == RawDictionaries(raw)
            outd == RawDictionaries(first.new_raw)
        IN  /\ BytesOf(RawTopUnknown(first.new_raw)) = BytesOf(RawTopUnknown(raw))
            /\ \A i \in 1..Len(ind) :
                  /\ i # first.updated_index => outd[i].bytes = ind[i].bytes
                  /\ BytesOf(RawDictUnknown(outd[i].payload))
                        = BytesOf(RawDictUnknown(ind[i].payload))

\* The j-th field of `outs` is the j-th field of `ins`, byte for byte, when
\* the latter has its varints in their shortest encoding.
ShortestKept(ins, outs) ==
    /\ Len(outs) = Len(ins)
    /\ \A j \in 1..Len(ins) : ShortestVarints(ins[j]) => outs[j].bytes = ins[j].bytes

\* C2, amended: whenever update_dictionary returns, every dictionary but the
\* target and every unrecognized field keep their decoded content and order;
\* a dictionary record other than the target that is laid out as
\* build_dictionary writes one (id, name, entries, unrecognized fields,
\* shortest varints), and an unrecognized field at top level or in any
\* dictionary whose tag and varint are in their shortest encoding, stand in
\* the output with exactly the bytes they had in the input.
C2_ContentKept ==
    Updated =>
        LET ind == RawDictionaries(raw)
            outd == RawDictionaries(first.new_raw)
            old == OldDictionaries
            new == parse_storage(first.new_raw)
        IN  /\ new.unknown_fields = parse_storage(raw).unknown_fields
            /\ ShortestKept(RawTopUnknown(raw), RawTopUnknown(first.new_raw))
            /\ Len(outd) >= Len(ind)
            /\ \A i \in 1..Len(ind) :
                  /\ i # first.updated_index => new.dictionaries[i] = old[i]
                  /\ (i # first.updated_index /\ ShortestVarints(ind[i])
                        /\ LaidOutDictionary(ind[i].payload))
                     => outd[i].bytes = ind[i].bytes
                  /\ new.dictionaries[i].unknown_fields = old[i].unknown_fields
                  /\ ShortestKept(RawDictUnknown(ind[i].payload),
                                  RawDictUnknown(outd[i].payload))

\* The target, standing after a laid-out dictionary and before an
\* unrecognized top-level field, has been updated; it holds unrecognized
\* fields itself, and the output is not the input.
C2_Witness ==
    /\ UpdatedExisting
    /\ first.new_raw # raw
    /\ Len(OldDictionaries) = 2
    /\ first.updated_index = 2
    /\ OldDictionaries[2].unknown_fields # <<>>
    /\ first.unknown_fields # <<>>
    /\ LaidOutDictionary(RawDictionaries(raw)[1].payload)

\* -------------------------------------------------------------- C3
\* C3: when update_dictionary returns b1 for (b, u), it returns for (b1, u),
\* and returns b1; so when the first application created the dictionary as
\* when it updated one.
C3_Idempotent ==
    pc = "again" => second.err = NoError /\ second.new_raw = first.new_raw

\* The first application created the dictionary beside another one, the
\* second found it.
C3_Witness ==
    /\ pc = "again"
    /\ first.stats.created
    /\ ~second.stats.created
    /\ Len(first.dictionaries) >= 2
    /\ second.new_raw = first.new_raw

\* -------------------------------------------------------------- C4
\* C4: when the target exists and update_dictionary returns, the target's
\* entries in the output are the prior entries whose parsed key is not among
\* the keys of the update, in their order, followed by the new entries, key
\* after key and value after value; no prior entry with a key of the update
\* is left.
C4_SurvivorsThenNew ==
    UpdatedExisting =>
        LET t == first.updated_index
            prior == RawEntries(RawDictionaries(raw)[t].payload)
            after == RawEntries(RawDictionaries(first.new_raw)[t].payload)
            survivors == Pick(prior, {i \in 1..Len(prior) :
                                 BlobKey(prior[i]).none
                                   \/ BlobKey(prior[i]).key \notin ConfigKeys(config)})
        IN  /\ t = CHOOSE i \in TargetsIn(OldDictionaries) :
                      \A j \in TargetsIn(OldDictionaries) : i <= j
            /\ after = survivors \o NewEntries(config)

\* Of two prior entries one had a key of the update and went, the other had
\* another key and stayed, and the update wrote entries for two keys.
C4_Witness ==
    /\ UpdatedExisting
    /\ LET prior == RawEntries(RawDictionaries(raw)[first.updated_index].payload)
       IN  /\ Len(prior) = 2
           /\ ~BlobKey(prior[1]).none /\ BlobKey(prior[1]).key \in ConfigKeys(config)
           /\ ~BlobKey(prior[2]).none /\ BlobKey(prior[2]).key \notin ConfigKeys(config)
    /\ Len(config.days) = 2
    /\ first.stats.entries >= 3

\* -------------------------------------------------------------- C5
\* C5: when update_dictionary returns and no dictionary of the input has the
\* target name (the empty buffer included), the output holds the old
\* dictionaries followed by exactly one new one, with the target name, the
\* new entries, no unknown field and an id that is not zero and not the id of
\* an old dictionary, and created is true; when a dictionary has the name,
\* the output holds as many dictionaries as the input and created is false.
C5_CreateOrKeep ==
    Updated =>
        LET old == OldDictionaries
            new == parse_storage(first.new_raw).dictionaries
        IN  IF TargetsIn(old) = {}
            THEN /\ first.stats.created
                 /\ Len(new) = Len(old) + 1
                 /\ SubSeq(new, 1, Len(old)) = old
                 /\ new[Len(new)].name = config.dictionary_name
                 /\ new[Len(new)].entries_raw = NewEntries(config)
                 /\ new[Len(new)].unknown_fields = <<>>
                 /\ new[Len(new)].dict_id # <<>>
                 /\ \A i \in 1..Len(old) : new[Len(new)].dict_id # old[i].dict_id
                 /\ first.stats.dictionary_id = new[Len(new)].dict_id
            ELSE /\ ~first.stats.created
                 /\ Len(new) = Len(old)

\* A dictionary was created after two others, whose ids 1 and 2 the draw had
\* to avoid.
C5_Witness ==
    /\ Updated
    /\ first.stats.created
    /\ {OldDictionaries[i].dict_id : i \in 1..Len(OldDictionaries)} = {<<1>>, <<2>>}

\* -------------------------------------------------------------- C6
\* A dictionary record that parse_dictionary cannot accept: its fields do not
\* decode, or none is an id, or none is a name.
BadDictionary(p) ==
    \/ ~Decodable(p)
    \/ LET fs == parse_fields(p).fields IN
          \/ ~\E i \in 1..Len(fs) : IsField(fs[i], DICT_FIELD_ID, WIRE_VARINT)
          \/ ~\E i \in 1..Len(fs) : IsField(fs[i], DICT_FIELD_NAME, WIRE_LENGTH_DELIMITED)

\* A buffer with a decode failure at top level or in a dictionary record.
Malformed(b) ==
    \/ ~Decodable(b)
    \/ LET fs == parse_fields(b).fields IN
          \E i \in 1..Len(fs) :
              /\ IsField(fs[i], STORAGE_FIELD_DICTIONARY, WIRE_LENGTH_DELIMITED)
              /\ BadDictionary(fs[i].bval)

\* C6: on a buffer with a decode failure at top level or inside a dictionary
\* record (a varint, fixed-width value or payload past the end, a wire type
\* outside {0, 1, 2, 5}, a dictionary without id or name), update_dictionary
\* raises: it returns no buffer and no Storage.
C6_MalformedFails ==
    (pc # "input" /\ Malformed(raw)) =>
        /\ pc = "failed"
        /\ first.err \in {ProtoDecodeError, UnicodeDecodeError}
        /\ first.new_raw = <<>>
        /\ first.dictionaries = <<>>
        /\ first.unknown_fields = <<>>

\* update_dictionary raised on a buffer whose first dictionary is sound and
\* whose second has an id and no name.
C6_Witness ==
    /\ pc = "failed"
    /\ Decodable(raw)
    /\ LET fs == parse_fields(raw).fields IN
          /\ Len(fs) >= 2
          /\ IsField(fs[1], STORAGE_FIELD_DICTIONARY, WIRE_LENGTH_DELIMITED)
          /\ ~BadDictionary(fs[1].bval)
          /\ IsField(fs[2], STORAGE_FIELD_DICTIONARY, WIRE_LENGTH_DELIMITED)
          /\ Decodable(fs[2].bval)
          /\ BadDictionary(fs[2].bval)
          /\ \E i \in 1..Len(parse_fields(fs[2].bval).fields) :
                IsField(parse_fields(fs[2].bval).fields[i], DICT_FIELD_ID, WIRE_VARINT)

\* -------------------------------------------------------------- C8
\* The values, in order, of the entries of key k among `entries`.
ValuesOfKey(entries, k) ==
    LET es == Pick(entries, {i \in 1..Len(entries) :
                       ~BlobKey(entries[i]).none /\ BlobKey(entries[i]).key = k})
    IN  [i \in 1..Len(es) |-> BlobValue(es[i])]

\* The values the config supplies for key k, day after day.
SuppliedValues(cfg, k) ==
    Flatten([i \in 1..Len(cfg.days) |->
                IF cfg.days[i].key = k
                THEN [n \in 1..Len(cfg.days[i].rendered) |-> utf8_encode(cfg.days[i].rendered[n])]
                ELSE <<>>])

\* The entries update_dictionary appended: the last stats.entries ones of the
\* dictionary it reports.
Appended ==
    LET es == first.dictionaries[first.updated_index].entries_raw
    IN  SubSeq(es, Len(es) - first.stats.entries + 1, Len(es))

\* C8: for every key of the update, the entries appended for the key carry
\* pairwise distinct values, in the first-seen order of the values supplied
\* for the key.
C8_DistinctValues ==
    Updated =>
        \A k \in ConfigKeys(config) :
            /\ NoRepeat(ValuesOfKey(Appended, k))
            /\ ValuesOfKey(Appended, k) = Dedup(SuppliedValues(config, k))

\* -------------------------------------------------------------- C9
\* C9: when the target exists and the entries of the update can be built,
\* update_dictionary does not raise, whatever the entry blobs of the target
\* (without KEY, with a KEY that is not UTF-8, or not decodable as fields),
\* and the blobs without an obtainable key stay, in their order.
C9_KeylessKept ==
    (pc # "input" /\ parse_storage(raw).err = NoError
        /\ TargetsIn(OldDictionaries) # {} /\ config.pos >= 0) =>
        /\ first.err = NoError
        /\ LET t == first.updated_index
               prior == OldDictionaries[t].entries_raw
               keyless == Pick(prior, {i \in 1..Len(prior) :
                                 ~Decodable(prior[i]) \/ BlobKey(prior[i]).none})
               after == first.dictionaries[t].entries_raw
           IN  keyless = Pick(after, {i \in 1..Len(after) :
                                 ~Decodable(after[i]) \/ BlobKey(after[i]).none})

\* ------------------------------------------------------------- C10
\* The first byte of data without the continuation bit, counted from 1; 0
\* when there is none.
TerminatorAt(data) ==
    IF \E i \in 1..Len(data) : data[i] < 128
    THEN CHOOSE i \in 1..Len(data) : data[i] < 128 /\ \A j \in 1..(i - 1) : data[j] >= 128
    ELSE 0

\* C10: decode_varint raises on a varint of more than 10 bytes and returns
\* on every complete varint of at most 10 bytes.
C10_TenBytes ==
    (pc = "varint" /\ vst.status # "run") =>
        /\ TerminatorAt(raw) > 10 => vst.status = ProtoDecodeError
        /\ TerminatorAt(raw) \in 1..10 => vst.status = "return"

\* ------------------------------------------------------------- C11
\* The first of the dictionaries of the input with the target name.
FirstTarget ==
    CHOOSE i \in TargetsIn(OldDictionaries) : \A j \in TargetsIn(OldDictionaries) : i <= j

\* The output holds the dictionaries of the input, all but the first target
\* as they were; the first target has its id, name and unknown fields, and
\* for entries its survivors followed by the new entries; the stats name the
\* first target's id, with created false.
OnlyFirstTargetChanged ==
    LET old == OldDictionaries
        new == parse_storage(first.new_raw).dictionaries
        t == FirstTarget
        prior == old[t].entries_raw
        survivors == Pick(prior, {i \in 1..Len(prior) :
                             BlobKey(prior[i]).none
                               \/ BlobKey(prior[i]).key \notin ConfigKeys(config)})
    IN  /\ Len(new) = Len(old)
        /\ \A i \in 1..Len(old) : i # t => new[i] = old[i]
        /\ new[t] = [old[t] EXCEPT !.entries_raw = survivors \o NewEntries(config)]
        /\ first.updated_index = t
        /\ first.stats.dictionary_id = old[t].dict_id
        /\ ~first.stats.created

SeveralTargets ==
    /\ pc # "input"
    /\ parse_storage(raw).err = NoError
    /\ Cardinality(TargetsIn(OldDictionaries)) >= 2

\* C11: when two or more dictionaries of a decodable buffer have the target
\* name (and pos is not negative, so that the entries can be built),
\* update_dictionary returns, changes only the first of them (its survivors,
\* then the new entries), leaves every later one as it was, and reports the
\* first one's id with created false.
C11_FirstOfSeveral ==
    (SeveralTargets /\ config.pos >= 0) =>
        first.err = NoError /\ OnlyFirstTargetChanged

\* Whenever update_dictionary returns on several dictionaries of the target
\* name, only the first of them is changed.
C11_WhenReturned == (SeveralTargets /\ first.err = NoError) => OnlyFirstTargetChanged

\* ------------------------------------------------------------- C12
\* The steps of main so far that did `op`.
Ops(op) == {i \in 1..Len(log) : log[i].op = op}

\* What main read, or would read, from the dictionary file it started with.
BytesRead == IF files0.file.exists THEN files0.file.data ELSE <<>>

\* C12: in every run of main the dictionary file is replaced at most once;
\* the file or a backup is touched only after update_dictionary returned a
\* buffer, without --dry-run, and with a buffer that differs from the bytes
\* read (so never on a decode failure, a dry run or an unchanged buffer);
\* until it is replaced the file is as main found it, and then it holds the
\* new buffer; a backup is made only of an existing file, holds what the file
\* held when main started, and is made before the file is replaced.
C12_WriteOnce ==
    /\ Cardinality(Ops("replace")) <= 1
    /\ (Ops("replace") # {} \/ Ops("copy") # {}
          \/ files.file # files0.file \/ files.backup # files0.backup)
       => /\ first.err = NoError
          /\ ~args.dry_run
          /\ raw = BytesRead
          /\ first.new_raw # raw
    /\ Ops("replace") = {} => files.file = files0.file
    /\ Ops("replace") # {} => files.file = File(first.new_raw)
    /\ Ops("copy") = {} => files.backup = files0.backup
    /\ Ops("copy") # {} =>
          /\ ~args.no_backup
          /\ files0.file.exists
          /\ files.backup = files0.file
          /\ \A c \in Ops("copy") : \A r \in Ops("replace") : c < r

\* main returned 0 after copying the old file to a backup and replacing the
\* file with a different buffer.
C12_Witness ==
    /\ pc = "returned"
    /\ ret = 0
    /\ Ops("copy") # {}
    /\ Ops("replace") # {}
    /\ files.file # files0.file
    /\ files.backup = files0.file

====
